---- MODULE Spec2Model ----
(***************************************************************************)
(* Booking lifecycle of the property-booking backend: the property         *)
(* assignment handler (POST /api/property-assignment), the payment         *)
(* orchestration (POST /api/stripe/create-session and the Stripe webhook), *)
(* the admin confirmation (PUT /api/admin/bookings/:id/confirm), the       *)
(* booking intake (POST /api/booking-requests) and the bookings route      *)
(* (POST /api/bookings/create, GET /api/bookings/:id), each request        *)
(* handled concurrently and suspended at every persistence round trip; the *)
(* two handlers of the bookings route, whose only write is one insert, are *)
(* each one step.                                                          *)
(***************************************************************************)
EXTENDS Integers, Sequences, FiniteSets, TLC

\* ------------------------------------------------------------- bounds
\* Requests handled concurrently under Spec, and under SpecReliable.
NumPair == 2
NumReq == 3
MaxDay == 2
\* Days of the intervals the conflict decision is tabulated over (SpecOverlap).
MaxProbeDay == 4
\* Create-session requests and webhook deliveries under SpecStripe.
NumSessionReq == 1
NumDeliveries == 1
\* Create-session requests and deliveries of one event under SpecReplay.
NumRepeat == 2
\* Admin confirmation requests under SpecAdmin.
NumAdminReq == 1
\* Intake requests and the entries of a request's bookings list (SpecIntake).
NumIntake == 1
MaxEntries == 2
\* Days and unit prices of the bookings the amount is computed for (SpecAmount).
MaxBookingDay == 10
MaxPrice == 50

\* ---------------------------------------------------------- constants
MsPerDay == 86400000
NoDate == 0

Requests == 1..NumReq
Pair == 1..NumPair
Days == 1..MaxDay
ProbeDays == 1..MaxProbeDay
PropertyIds == {"p1", "p2"}
BookingDateIds == {"d1", "d2"}

\* A request body of POST /property-assignment: "" and NoDate are the falsy
\* (absent or empty) values of a field.
Bodies ==
  [booking_date_id : BookingDateIds \cup {""},
   property_id : PropertyIds \cup {""},
   start_date : Days \cup {NoDate},
   end_date : Days \cup {NoDate}]

\* Stripe: bookings, checkout sessions, webhook deliveries.
BookingIds == {"b1"}
SessionRequests == 1..NumSessionReq
SessionIds == 1..NumSessionReq
Deliveries == 1..NumDeliveries
\* Every create-session request, delivery and intake request the model holds
\* state for.
Replays == 1..NumRepeat
AdminRequests == 1..NumAdminReq
IntakeRequests == 1..NumIntake

\* Addresses: one of a stored landlord, one of a stored contractor, two new ones.
Emails == {"l@x", "c@x", "n@x", "m@x"}
\* An entry of bookings: NoDate is the empty string.
Entries == [startDate : Days \cup {NoDate}, endDate : Days \cup {NoDate}]
EntryLists == UNION {[1..n -> Entries] : n \in 0..MaxEntries}
\* A body of POST /booking-requests: "" is an address the schema rejects.
IntakeBodies == [email : Emails \cup {""}, bookings : EntryLists]
NoIntakeBody == [email |-> "", bookings |-> <<>>]
NoIntakeResp == [status |-> 0, error |-> ""]
EventTypes == {"checkout.session.completed", "checkout.session.expired", "other"}
\* The stripe-signature header: absent, not matching the secret, matching it.
Signatures == {"", "invalid", "valid"}
Events ==
  [signature : Signatures, type : EventTypes, session : SessionIds,
   bookingId : BookingIds \cup {""}]
\* The verified checkout.session.completed events of the sessions Stripe may hold.
CompletedEvents ==
  [signature : {"valid"}, type : {"checkout.session.completed"}, session : Replays,
   bookingId : BookingIds]
NoEvent == [signature |-> "", type |-> "other", session |-> 1, bookingId |-> ""]
NotificationKinds ==
  {"booking_created", "payment_succeeded", "payment_expired", "booking_confirmed"}
    \X BookingIds

\* The columns of a bookings row that create-session reads: the dates (days) and
\* the unit price of the joined property.
BookingRows ==
  [start_date : 1..MaxBookingDay, end_date : 1..MaxBookingDay, price : 0..MaxPrice]
NoBookingRow == [start_date |-> NoDate, end_date |-> NoDate, price |-> 0]
\* The booking of the end-to-end scenario: 2024-03-01 to 2024-03-10 at 50 a day.
ScenarioRow == [start_date |-> 1, end_date |-> 10, price |-> 50]

\* The profiles: two contractors, two landlords and an admin; "" is a request
\* whose token authenticateUser rejects.
UserIds == {"c1", "c2", "l1", "l2", "a1"}
\* property_id "p0" is a UUID no property has, "not-a-uuid" fails z.string().uuid();
\* NoDate is a string the date pattern rejects.
CreateBodies ==
  [user : UserIds \cup {""}, property_id : PropertyIds \cup {"p0", "not-a-uuid"},
   start_date : Days \cup {NoDate}, end_date : Days \cup {NoDate}]
NoCreateBody == [user |-> "", property_id |-> "", start_date |-> NoDate, end_date |-> NoDate]
\* The request of contractor c1 for the dates of a row, on property p1.
CreateOf(d) ==
  [user |-> "c1", property_id |-> "p1", start_date |-> d.start_date, end_date |-> d.end_date]
\* The request that creates the scenario's booking.
ScenarioCreate == CreateOf(ScenarioRow)
NoBookingKeys == [property_id |-> "", contractor_id |-> ""]
GetBodies == [user : UserIds \cup {""}, id : BookingIds \cup {"b0"}]
NoGetBody == [user |-> "", id |-> ""]

NoBody == [booking_date_id |-> "", property_id |-> "", start_date |-> NoDate, end_date |-> NoDate]
NoResp == [status |-> 0, code |-> "", conflictingDates |-> <<>>, data |-> 0]

VARIABLES
  booked_properties,  \* the booked_properties table, rows in insertion order
  is_available,       \* properties.is_available, by property id
  date_status,        \* booking_dates.status, by booking date id
  pc,                 \* where each assignment request stands
  body,               \* req.body of each assignment request
  resp,               \* the response each assignment request sent
  insertData,         \* id of the row each request's insert returned (0: none)
  issued,             \* the mutating calls each request issued, in program order
  logged,             \* what each assignment request wrote with console.error
  answered            \* history: the requests already answered when each arrived

VARIABLES
  newIv,              \* SpecOverlap: the requested interval (start_date, end_date)
  oldIv,              \* SpecOverlap: the stored row's interval
  decided,            \* SpecOverlap: whether the loop's test was evaluated
  conflict            \* SpecOverlap: what the loop's test answered

tables == <<booked_properties, is_available, date_status>>
avars == <<booked_properties, is_available, date_status, pc, body, resp, insertData,
           issued, logged, answered>>
ovars == <<newIv, oldIv, decided, conflict>>

VARIABLES
  bookings,           \* bookings.status by booking id ("none": no such row)
  bookingRow,         \* dates and property price of each bookings row
  invoices,           \* the invoices table, rows in insertion order
  sessions,           \* the checkout sessions Stripe holds, by session id
  notified,           \* how many events of each kind reached the CRM webhook
  emitted,            \* how many times sendWebhookEvent was called, by kind
  cpc,                \* where each create-session request stands
  cbody,              \* booking_id of each create-session request
  csession,           \* the session each create-session request opened (0: none)
  cresp,              \* the status each create-session request answered
  wpc,                \* where each Stripe webhook delivery stands
  wevent,             \* signature header and event of each delivery
  wverified,          \* whether constructWebhookEvent returned each delivery's event
  wresp               \* the status each delivery was answered

VARIABLES
  apc,                \* where each admin confirmation request stands
  abody,              \* actor role, booking id and status of each admin request
  aresp               \* the status each admin request was answered

VARIABLES
  contractor,         \* the contractor table, rows in insertion order
  landlord,           \* the addresses of the landlord table
  booking_requests,   \* the booking_requests table
  booking_dates,      \* the booking_dates rows intake created
  ghl,                \* the payloads posted to GHL_BOOKING_REQUEST_WEBHOOK_URL
  ipc,                \* where each intake request stands
  ibody,              \* req.body of each intake request
  iresp,              \* the response each intake request sent
  iurl,               \* whether the request found the GHL URL configured
  icode,              \* nextNumber of each intake request
  irequest,           \* bookingRequest.id of each intake request (0: none)
  idates,             \* datesData of each intake request
  inext               \* the loop variable i of Step 6, counted from 1

VARIABLES
  properties,         \* owner_id and price of each properties row, by property id
  bookingKeys,        \* property_id and contractor_id of each bookings row
  kbody,              \* req.user.id and req.body of each bookings/create request
  kresp,              \* the status each bookings/create request answered
  gbody,              \* req.user.id and req.params.id of each GET bookings/:id
  gresp               \* the status each GET bookings/:id answered

kvars == <<properties, bookingKeys, kbody, kresp, gbody, gresp>>
ivars == <<contractor, landlord, booking_requests, booking_dates, ghl, ipc, ibody,
           iresp, iurl, icode, irequest, idates, inext>>
svars == <<bookings, bookingRow, invoices, sessions, notified, emitted, cpc, cbody,
           csession, cresp, wpc, wevent, wverified, wresp>>
mvars == <<apc, abody, aresp>>
others == <<ovars, svars, mvars, ivars, kvars>>
vars == <<avars, ovars, svars, mvars, ivars, kvars>>

\* ------------------------------------------------------ pure functions

\* new Date("YYYY-MM-DD"): milliseconds since the epoch, UTC midnight of the day.
NewDate(d) == d * MsPerDay

\* DatesOverlap with a seeded fault: strict comparisons, touching intervals pass.
DatesOverlap_Strict(newStart, newEnd, existingStart, existingEnd) ==
  newStart < existingEnd /\ newEnd > existingStart

\* The condition of the overlap loop, on Date objects.
DatesOverlap(newStart, newEnd, existingStart, existingEnd) ==
  newStart <= existingEnd /\ newEnd >= existingStart

\* The overlap loop's test of one stored row against the request's interval.
RowConflicts(b, booking) ==
  DatesOverlap(NewDate(b.start_date), NewDate(b.end_date),
               NewDate(booking.start_date), NewDate(booking.end_date))

MissingFields(b) ==
  b.booking_date_id = "" \/ b.property_id = "" \/ b.start_date = NoDate \/ b.end_date = NoDate

Rows == {booked_properties[i] : i \in DOMAIN booked_properties}

\* .eq('booking_id', id).maybeSingle(): the row when exactly one matches, null
\* (<<>>) when none matches, and null with an error when several match or the
\* call fails; the handler reads data only.
MaybeSingle(rows) ==
  IF Cardinality(rows) = 1 THEN CHOOSE x \in rows : TRUE ELSE <<>>

ExistingBooking(b, ok) ==
  IF ok THEN MaybeSingle({x \in Rows : x.booking_id = b.booking_date_id}) ELSE <<>>

\* .eq('property_id', id): the rows of the property, null (here: none) on error.
ExistingBookings(b, ok) ==
  IF ok THEN {x \in Rows : x.property_id = b.property_id} ELSE {}

\* ------------------------------------------------------------ actions

NoIv == [start_date |-> NoDate, end_date |-> NoDate]

InitOverlapIdle ==
  /\ newIv = NoIv
  /\ oldIv = NoIv
  /\ decided = FALSE
  /\ conflict = FALSE

InitAssignment ==
  /\ booked_properties = <<>>
  /\ is_available = [p \in PropertyIds |-> TRUE]
  /\ date_status = [d \in BookingDateIds |-> "pending"]
  /\ pc = [r \in Requests |-> "idle"]
  /\ body = [r \in Requests |-> NoBody]
  /\ resp = [r \in Requests |-> NoResp]
  /\ insertData = [r \in Requests |-> 0]
  /\ issued = [r \in Requests |-> <<>>]
  /\ logged = [r \in Requests |-> {}]
  /\ answered = [r \in Requests |-> {}]

InitStripe ==
  /\ bookings = [b \in BookingIds |-> "none"]
  /\ bookingRow = [b \in BookingIds |-> NoBookingRow]
  /\ invoices = <<>>
  /\ sessions = <<>>
  /\ notified = [k \in NotificationKinds |-> 0]
  /\ emitted = [k \in NotificationKinds |-> 0]
  /\ cpc = [c \in Replays |-> "idle"]
  /\ cbody = [c \in Replays |-> ""]
  /\ csession = [c \in Replays |-> 0]
  /\ cresp = [c \in Replays |-> 0]
  /\ wpc = [h \in Replays |-> "idle"]
  /\ wevent = [h \in Replays |-> NoEvent]
  /\ wverified = [h \in Replays |-> FALSE]
  /\ wresp = [h \in Replays |-> 0]

NoAdminBody == [role |-> "", id |-> "", status |-> ""]

InitAdmin ==
  /\ apc = [a \in AdminRequests |-> "idle"]
  /\ abody = [a \in AdminRequests |-> NoAdminBody]
  /\ aresp = [a \in AdminRequests |-> 0]

\* A database holding one contractor and one landlord, no intake request yet.
InitIntake ==
  /\ contractor = <<[email |-> "c@x", code |-> 1]>>
  /\ landlord = {"l@x"}
  /\ booking_requests = <<>>
  /\ booking_dates = <<>>
  /\ ghl = <<>>
  /\ ipc = [r \in Replays |-> "idle"]
  /\ ibody = [r \in Replays |-> NoIntakeBody]
  /\ iresp = [r \in Replays |-> NoIntakeResp]
  /\ iurl = [r \in Replays |-> FALSE]
  /\ icode = [r \in Replays |-> 0]
  /\ irequest = [r \in Replays |-> 0]
  /\ idates = [r \in Replays |-> <<>>]
  /\ inext = [r \in Replays |-> 0]

\* No bookings/create and no GET bookings/:id request yet.
InitBookingRequests ==
  /\ bookingKeys = [b \in BookingIds |-> NoBookingKeys]
  /\ kbody = [k \in Replays |-> NoCreateBody]
  /\ kresp = [k \in Replays |-> 0]
  /\ gbody = [g \in Replays |-> NoGetBody]
  /\ gresp = [g \in Replays |-> 0]

\* The properties table: p1 of landlord l1, p2 of landlord l2, at one price.
PropertiesAt(price) ==
  [p \in PropertyIds |-> [owner_id |-> IF p = "p1" THEN "l1" ELSE "l2", price |-> price]]

\* The properties of the scenario, at 50 a day.
InitBookings ==
  /\ properties = PropertiesAt(ScenarioRow.price)
  /\ InitBookingRequests

Init ==
  InitAssignment /\ InitOverlapIdle /\ InitStripe /\ InitAdmin /\ InitIntake /\ InitBookings

Respond(r, status, code, dates, data) ==
  /\ pc' = [pc EXCEPT ![r] = "done"]
  /\ resp' = [resp EXCEPT ![r] = [status |-> status, code |-> code,
                                  conflictingDates |-> dates, data |-> data]]

\* The request arrives: field validation, then the first read of
\* booked_properties (the existence check by booking_id). The lookups of the
\* contractor, the landlord and the booking_dates row that come between the two
\* read other tables and fill display columns only.
Receive(r, b, ok) ==
  /\ pc[r] = "idle"
  /\ UNCHANGED others
  /\ \A q \in Requests : q < r => pc[q] # "idle"
  /\ body' = [body EXCEPT ![r] = b]
  /\ answered' = [answered EXCEPT ![r] = {q \in Requests : pc[q] = "done"}]
  /\ IF MissingFields(b)
       THEN Respond(r, 400, "", <<>>, 0)
       ELSE IF ExistingBooking(b, ok) # <<>>
         THEN Respond(r, 409, "BOOKING_ALREADY_EXISTS", <<>>, 0)
         ELSE /\ pc' = [pc EXCEPT ![r] = "overlap"]
              /\ UNCHANGED resp
  /\ UNCHANGED <<booked_properties, is_available, date_status, insertData, issued, logged>>

\* CheckOverlap with a seeded fault: a conflict marks the property unavailable too.
CheckOverlap_FlagOnConflict(r, ok) ==
  /\ pc[r] = "overlap"
  /\ UNCHANGED others
  /\ LET conflicts == {x \in ExistingBookings(body[r], ok) : RowConflicts(body[r], x)}
     IN IF conflicts # {}
          THEN /\ \E x \in conflicts :
                    Respond(r, 409, "DATE_CONFLICT", <<x.start_date, x.end_date>>, 0)
               /\ is_available' = [is_available EXCEPT ![body[r].property_id] = FALSE]
          ELSE /\ pc' = [pc EXCEPT ![r] = "insert"]
               /\ UNCHANGED <<resp, is_available>>
  /\ UNCHANGED <<booked_properties, date_status, body, insertData, issued, logged, answered>>

\* The second read (the rows of the property) and the overlap loop; the row the
\* loop meets first is any conflicting row, the select having no order.
CheckOverlap(r, ok) ==
  /\ pc[r] = "overlap"
  /\ UNCHANGED others
  /\ LET conflicts == {x \in ExistingBookings(body[r], ok) : RowConflicts(body[r], x)}
     IN IF conflicts # {}
          THEN \E x \in conflicts :
                 Respond(r, 409, "DATE_CONFLICT", <<x.start_date, x.end_date>>, 0)
          ELSE /\ pc' = [pc EXCEPT ![r] = "insert"]
               /\ UNCHANGED resp
  /\ UNCHANGED <<booked_properties, is_available, date_status, body, insertData,
                 issued, logged, answered>>

NewRow(r) ==
  [id |-> Len(booked_properties) + 1,
   booking_id |-> body[r].booking_date_id,
   property_id |-> body[r].property_id,
   start_date |-> body[r].start_date,
   end_date |-> body[r].end_date]

\* Insert with a seeded fault: an insert error is logged and the handler goes on.
Insert_Unchecked(r, ok) ==
  /\ pc[r] = "insert"
  /\ UNCHANGED others
  /\ issued' = [issued EXCEPT ![r] = Append(@, "insert")]
  /\ IF ok
       THEN /\ booked_properties' = Append(booked_properties, NewRow(r))
            /\ insertData' = [insertData EXCEPT ![r] = NewRow(r).id]
            /\ UNCHANGED logged
       ELSE /\ logged' = [logged EXCEPT ![r] = @ \cup {"insert"}]
            /\ UNCHANGED <<booked_properties, insertData>>
  /\ pc' = [pc EXCEPT ![r] = "updateProperty"]
  /\ UNCHANGED <<is_available, date_status, body, resp, answered>>

\* The insert into booked_properties; an insert error answers 500.
Insert(r, ok) ==
  /\ pc[r] = "insert"
  /\ UNCHANGED others
  /\ issued' = [issued EXCEPT ![r] = Append(@, "insert")]
  /\ IF ok
       THEN /\ booked_properties' = Append(booked_properties, NewRow(r))
            /\ insertData' = [insertData EXCEPT ![r] = NewRow(r).id]
            /\ pc' = [pc EXCEPT ![r] = "updateProperty"]
            /\ UNCHANGED <<resp, logged>>
       ELSE /\ Respond(r, 500, "", <<>>, 0)
            /\ logged' = [logged EXCEPT ![r] = @ \cup {"insert"}]
            /\ UNCHANGED <<booked_properties, insertData>>
  /\ UNCHANGED <<is_available, date_status, body, answered>>

\* UpdateProperty with a seeded fault: the update leaves the flag as it is.
UpdateProperty_NoFlip(r, ok) ==
  /\ pc[r] = "updateProperty"
  /\ UNCHANGED others
  /\ issued' = [issued EXCEPT ![r] = Append(@, "updateProperty")]
  /\ IF ok
       THEN UNCHANGED logged
       ELSE logged' = [logged EXCEPT ![r] = @ \cup {"property"}]
  /\ pc' = [pc EXCEPT ![r] = "updateDate"]
  /\ UNCHANGED <<booked_properties, is_available, date_status, body, resp, insertData, answered>>

\* properties.update({is_available: false}); an error is logged only.
UpdateProperty(r, ok) ==
  /\ pc[r] = "updateProperty"
  /\ UNCHANGED others
  /\ issued' = [issued EXCEPT ![r] = Append(@, "updateProperty")]
  /\ IF ok
       THEN /\ is_available' = [is_available EXCEPT ![body[r].property_id] = FALSE]
            /\ UNCHANGED logged
       ELSE /\ logged' = [logged EXCEPT ![r] = @ \cup {"property"}]
            /\ UNCHANGED is_available
  /\ pc' = [pc EXCEPT ![r] = "updateDate"]
  /\ UNCHANGED <<booked_properties, date_status, body, resp, insertData, answered>>

\* booking_dates.update({status: 'confirmed'}); an error is logged only; then 201.
UpdateDate(r, ok) ==
  /\ pc[r] = "updateDate"
  /\ UNCHANGED others
  /\ issued' = [issued EXCEPT ![r] = Append(@, "updateDate")]
  /\ IF ok
       THEN /\ date_status' = [date_status EXCEPT ![body[r].booking_date_id] = "confirmed"]
            /\ UNCHANGED logged
       ELSE /\ logged' = [logged EXCEPT ![r] = @ \cup {"booking_date"}]
            /\ UNCHANGED date_status
  /\ Respond(r, 201, "", <<>>, insertData[r])
  /\ UNCHANGED <<booked_properties, is_available, body, insertData, answered>>

\* Complete bodies for one property, over the well-formed intervals.
SmallBodies ==
  {b \in Bodies : /\ ~MissingFields(b)
                   /\ b.property_id = "p1"
                   /\ b.start_date <= b.end_date}

\* Two concurrent requests with any body, every persistence call failing or not.
Next ==
  \E r \in Pair, ok \in BOOLEAN :
    \/ \E b \in Bodies : Receive(r, b, ok)
    \/ CheckOverlap(r, ok)
    \/ Insert(r, ok)
    \/ UpdateProperty(r, ok)
    \/ UpdateDate(r, ok)

Spec == Init /\ [][Next]_vars

\* Two concurrent requests with any body, the two reads of booked_properties
\* succeeding and the insert and the updates failing or not.
NextReadsOk ==
  \E r \in Pair, ok \in BOOLEAN :
    \/ \E b \in Bodies : Receive(r, b, TRUE)
    \/ CheckOverlap(r, TRUE)
    \/ Insert(r, ok)
    \/ UpdateProperty(r, ok)
    \/ UpdateDate(r, ok)

SpecReadsOk == Init /\ [][NextReadsOk]_vars

\* Three concurrent requests for one property, every persistence call succeeding.
NextReliable ==
  \E r \in Requests :
    \/ \E b \in SmallBodies : Receive(r, b, TRUE)
    \/ CheckOverlap(r, TRUE)
    \/ Insert(r, TRUE)
    \/ UpdateProperty(r, TRUE)
    \/ UpdateDate(r, TRUE)

SpecReliable == Init /\ [][NextReliable]_vars

\* The overlap loop's test alone, tabulated over every pair of intervals.
InitOverlap ==
  /\ InitAssignment
  /\ InitStripe
  /\ InitAdmin
  /\ InitIntake
  /\ InitBookings
  /\ newIv \in [start_date : ProbeDays, end_date : ProbeDays]
  /\ oldIv \in [start_date : ProbeDays, end_date : ProbeDays]
  /\ decided = FALSE
  /\ conflict = FALSE

Decide ==
  /\ ~decided
  /\ decided' = TRUE
  /\ conflict' = RowConflicts(newIv, oldIv)
  /\ UNCHANGED <<avars, svars, mvars, ivars, kvars, newIv, oldIv>>

NextOverlap == Decide

SpecOverlap == InitOverlap /\ [][NextOverlap]_vars

\* ------------------------------------------------------------- Stripe

\* sendWebhookEvent: posts the event to the CRM webhook when GHL_WEBHOOK_URL is
\* set; an unset URL skips it and a failed post is logged and swallowed.
SendWebhookEvent(eventType, bookingId, outcome) ==
  IF <<eventType, bookingId>> \in NotificationKinds
    THEN /\ emitted' = [emitted EXCEPT ![<<eventType, bookingId>>] = @ + 1]
         /\ notified' = IF outcome = "sent"
                          THEN [notified EXCEPT ![<<eventType, bookingId>>] = @ + 1]
                          ELSE notified
    ELSE UNCHANGED <<notified, emitted>>

NotifyOutcomes == {"sent", "skipped", "failed"}

\* ValidBooking with a seeded fault: a stay that ends on its first day passes.
ValidBooking_SameDay(d) == NewDate(d.end_date) >= NewDate(d.start_date)

\* createBookingSchema's refinement: the end date is after the start date.
ValidBooking(d) == NewDate(d.end_date) > NewDate(d.start_date)

\* POST /api/stripe/create-session: the schema check and the booking fetch.
SessionFetch(c, b, ok) ==
  /\ cpc[c] = "idle"
  /\ \A q \in Replays : q < c => cpc[q] # "idle"
  /\ cbody' = [cbody EXCEPT ![c] = b]
  /\ IF b \notin BookingIds
       THEN /\ cpc' = [cpc EXCEPT ![c] = "done"]
            /\ cresp' = [cresp EXCEPT ![c] = 400]
       ELSE IF ~ok \/ bookings[b] = "none"
         THEN /\ cpc' = [cpc EXCEPT ![c] = "done"]
              /\ cresp' = [cresp EXCEPT ![c] = 404]
         ELSE /\ cpc' = [cpc EXCEPT ![c] = "open"]
              /\ UNCHANGED cresp
  /\ UNCHANGED <<avars, ovars, mvars, ivars, kvars, bookings, bookingRow, invoices, sessions,
                 notified, emitted, csession, wpc, wevent, wverified, wresp>>

\* Math.ceil(a / b) for an integer a and a positive integer b.
Ceil(a, b) == -((-a) \div b)

\* NumberOfDays with a seeded fault: both end days are counted.
NumberOfDays_Inclusive(start_date, end_date) ==
  Ceil(NewDate(end_date) - NewDate(start_date), MsPerDay) + 1

\* Math.ceil((endDate.getTime() - startDate.getTime()) / (1000 * 60 * 60 * 24))
NumberOfDays(start_date, end_date) ==
  Ceil(NewDate(end_date) - NewDate(start_date), MsPerDay)

\* booking.property.price * numberOfDays
TotalAmount(row) == row.price * NumberOfDays(row.start_date, row.end_date)

\* unit_amount: Math.round(amount * 100), the amount in cents.
UnitAmount(amount) == amount * 100

\* createCheckoutSession: Stripe opens a session for the amount, tagged with the
\* booking id; a throw (Stripe not configured, the call failing) answers 500.
SessionOpen(c, ok) ==
  /\ cpc[c] = "open"
  /\ IF ok
       THEN /\ sessions' = Append(sessions,
                 [bookingId |-> cbody[c],
                  amount_total |-> UnitAmount(TotalAmount(bookingRow[cbody[c]]))])
            /\ csession' = [csession EXCEPT ![c] = Len(sessions) + 1]
            /\ cpc' = [cpc EXCEPT ![c] = "invoice"]
            /\ UNCHANGED cresp
       ELSE /\ cpc' = [cpc EXCEPT ![c] = "done"]
            /\ cresp' = [cresp EXCEPT ![c] = 500]
            /\ UNCHANGED <<sessions, csession>>
  /\ UNCHANGED <<avars, ovars, mvars, ivars, kvars, bookings, bookingRow, invoices, notified,
                 emitted, cbody, wpc, wevent, wverified, wresp>>

\* NewInvoice with a seeded fault: the invoice is stored as paid.
NewInvoice_Paid(c) ==
  [booking_id |-> cbody[c],
   stripe_session_id |-> csession[c],
   amount |-> TotalAmount(bookingRow[cbody[c]]),
   status |-> "paid"]

\* The row create-session inserts into invoices.
NewInvoice(c) ==
  [booking_id |-> cbody[c],
   stripe_session_id |-> csession[c],
   amount |-> TotalAmount(bookingRow[cbody[c]]),
   status |-> "unpaid"]

\* The insert of the unpaid invoice; an insert error answers 500.
SessionInvoice(c, ok) ==
  /\ cpc[c] = "invoice"
  /\ cpc' = [cpc EXCEPT ![c] = "done"]
  /\ IF ok
       THEN /\ invoices' = Append(invoices, NewInvoice(c))
            /\ cresp' = [cresp EXCEPT ![c] = 200]
       ELSE /\ cresp' = [cresp EXCEPT ![c] = 500]
            /\ UNCHANGED invoices
  /\ UNCHANGED <<avars, ovars, mvars, ivars, kvars, bookings, bookingRow, sessions, notified,
                 emitted, cbody, csession, wpc, wevent, wverified, wresp>>

\* ConstructWebhookEvent with a seeded fault: any present signature passes.
ConstructWebhookEvent_Unverified(signature, configured) ==
  configured

\* constructWebhookEvent: throws unless Stripe and the webhook secret are
\* configured and the signature matches the secret.
ConstructWebhookEvent(signature, configured) ==
  configured /\ signature = "valid"

WebhookDone(h, status) ==
  /\ wpc' = [wpc EXCEPT ![h] = "done"]
  /\ wresp' = [wresp EXCEPT ![h] = status]

\* InvoicesPaid with a seeded fault: the update flips the status of a paid row.
InvoicesPaid_Toggle(id) ==
  [i \in DOMAIN invoices |->
     IF invoices[i].stripe_session_id = id
       THEN [invoices[i] EXCEPT !.status = IF @ = "paid" THEN "unpaid" ELSE "paid"]
       ELSE invoices[i]]

\* .update({status: 'paid'}).eq('stripe_session_id', id)
InvoicesPaid(id) ==
  [i \in DOMAIN invoices |->
     IF invoices[i].stripe_session_id = id
       THEN [invoices[i] EXCEPT !.status = "paid"]
       ELSE invoices[i]]

\* POST /api/stripe/webhook up to its first round trip: the signature check,
\* the event's construction, the switch on its type and, for a completed
\* session, the update of the invoice.
WebhookReceive(h, e, configured, ok) ==
  /\ wpc[h] = "idle"
  /\ \A q \in Replays : q < h => wpc[q] # "idle"
  /\ wevent' = [wevent EXCEPT ![h] = e]
  /\ wverified' = [wverified EXCEPT ![h] =
                     e.signature # "" /\ ConstructWebhookEvent(e.signature, configured)]
  /\ IF e.signature = "" \/ ~ConstructWebhookEvent(e.signature, configured)
       THEN WebhookDone(h, 400) /\ UNCHANGED invoices
       ELSE IF e.type = "checkout.session.completed"
         THEN IF e.bookingId = ""
                THEN WebhookDone(h, 400) /\ UNCHANGED invoices
                ELSE IF ok
                  THEN /\ invoices' = InvoicesPaid(e.session)
                       /\ wpc' = [wpc EXCEPT ![h] = "booking"]
                       /\ UNCHANGED wresp
                  ELSE WebhookDone(h, 500) /\ UNCHANGED invoices
         ELSE IF e.type = "checkout.session.expired" /\ e.bookingId # ""
           THEN /\ wpc' = [wpc EXCEPT ![h] = "notify"]
                /\ UNCHANGED <<wresp, invoices>>
           ELSE WebhookDone(h, 200) /\ UNCHANGED invoices
  /\ UNCHANGED <<avars, ovars, mvars, ivars, kvars, bookings, bookingRow, sessions, notified,
                 emitted, cpc, cbody, csession, cresp>>

\* The update of the booking to paid; an error answers 500.
WebhookBooking(h, ok) ==
  /\ wpc[h] = "booking"
  /\ IF ok
       THEN /\ bookings' = [b \in BookingIds |->
                              IF b = wevent[h].bookingId /\ bookings[b] # "none"
                                THEN "paid" ELSE bookings[b]]
            /\ wpc' = [wpc EXCEPT ![h] = "notify"]
            /\ UNCHANGED wresp
       ELSE WebhookDone(h, 500) /\ UNCHANGED bookings
  /\ UNCHANGED <<avars, ovars, mvars, ivars, kvars, bookingRow, invoices, sessions, notified,
                 emitted, cpc, cbody, csession, cresp, wevent, wverified>>

\* NotificationOf with a seeded fault: every event is reported as a payment.
NotificationOf_Succeeded(type) == "payment_succeeded"

\* The event the switch sends for a Stripe event type.
NotificationOf(type) ==
  IF type = "checkout.session.completed" THEN "payment_succeeded" ELSE "payment_expired"

\* WebhookNotify with a seeded fault: a failed notification is answered 500.
WebhookNotify_Surfaced(h, outcome) ==
  /\ wpc[h] = "notify"
  /\ SendWebhookEvent(NotificationOf(wevent[h].type), wevent[h].bookingId, outcome)
  /\ WebhookDone(h, IF outcome = "failed" THEN 500 ELSE 200)
  /\ UNCHANGED <<avars, ovars, mvars, ivars, kvars, bookings, bookingRow, invoices, sessions,
                 cpc, cbody, csession, cresp, wevent, wverified>>

\* The payment_succeeded or payment_expired notification, then 200.
WebhookNotify(h, outcome) ==
  /\ wpc[h] = "notify"
  /\ SendWebhookEvent(NotificationOf(wevent[h].type), wevent[h].bookingId, outcome)
  /\ WebhookDone(h, 200)
  /\ UNCHANGED <<avars, ovars, mvars, ivars, kvars, bookings, bookingRow, invoices, sessions,
                 cpc, cbody, csession, cresp, wevent, wverified>>

\* ------------------------------------------------- admin confirmation

\* The actor of a request: "" when authenticateUser finds no valid token or no
\* profile, else the role of the profile.
ActorRoles == {"", "contractor", "landlord", "admin"}
\* "paid" stands for any status confirmBookingSchema's enum rejects.
AdminBodies ==
  [role : ActorRoles, id : BookingIds, status : {"confirmed", "cancelled", "paid"}]

\* requireRole(allowedRoles): the actor's role is among the allowed ones.
RequireRole(allowedRoles, role) == role \in allowedRoles

\* RequireAdmin with a seeded fault: the guard of the contractor routes is used.
RequireAdmin_AsContractor(role) == RequireRole({"contractor", "admin"}, role)

\* requireAdmin = requireRole(['admin'])
RequireAdmin(role) == RequireRole({"admin"}, role)

AdminDone(a, status) ==
  /\ apc' = [apc EXCEPT ![a] = "done"]
  /\ aresp' = [aresp EXCEPT ![a] = status]

\* PUT /api/admin/bookings/:id/confirm up to its first round trip on bookings:
\* authenticateUser (401), requireAdmin (403), the schema check (400) and the
\* fetch of the current booking (404).
AdminReceive(a, m, ok) ==
  /\ apc[a] = "idle"
  /\ \A q \in AdminRequests : q < a => apc[q] # "idle"
  /\ abody' = [abody EXCEPT ![a] = m]
  /\ IF m.role = ""
       THEN AdminDone(a, 401)
       ELSE IF ~RequireAdmin(m.role)
         THEN AdminDone(a, 403)
         ELSE IF m.status \notin {"confirmed", "cancelled"}
           THEN AdminDone(a, 400)
           ELSE IF ~ok \/ bookings[m.id] = "none"
             THEN AdminDone(a, 404)
             ELSE /\ apc' = [apc EXCEPT ![a] = "update"]
                  /\ UNCHANGED aresp
  /\ UNCHANGED <<avars, ovars, svars, ivars, kvars>>

\* The update of the booking's status; an error answers 500.
AdminUpdate(a, ok) ==
  /\ apc[a] = "update"
  /\ IF ok
       THEN /\ bookings' = [bookings EXCEPT ![abody[a].id] = abody[a].status]
            /\ apc' = [apc EXCEPT ![a] = "notify"]
            /\ UNCHANGED aresp
       ELSE AdminDone(a, 500) /\ UNCHANGED bookings
  /\ UNCHANGED <<avars, ovars, ivars, kvars, abody, bookingRow, invoices, sessions, notified,
                 emitted, cpc, cbody, csession, cresp, wpc, wevent, wverified, wresp>>

\* The booking_confirmed notification, then 200.
AdminNotify(a, outcome) ==
  /\ apc[a] = "notify"
  /\ SendWebhookEvent("booking_confirmed", abody[a].id, outcome)
  /\ AdminDone(a, 200)
  /\ UNCHANGED <<avars, ovars, ivars, kvars, abody, bookings, bookingRow, invoices, sessions,
                 cpc, cbody, csession, cresp, wpc, wevent, wverified, wresp>>

\* ------------------------------------------------------ bookings route

\* The first request of a route.
FirstRequest == CHOOSE c \in Replays : \A q \in Replays : c <= q

\* The role of the profile authenticateUser attaches to the request; "" when
\* the token is missing or invalid, or no profile is found (401).
RoleOf(user) ==
  IF user \in {"c1", "c2"} THEN "contractor"
  ELSE IF user \in {"l1", "l2"} THEN "landlord"
  ELSE IF user = "a1" THEN "admin"
  ELSE ""

\* requireContractor = requireRole(['contractor', 'admin'])
RequireContractor(role) == RequireRole({"contractor", "admin"}, role)

\* createBookingSchema: a UUID, two dates of the pattern, and the refinement.
ValidCreate(q) ==
  /\ q.property_id # "not-a-uuid"
  /\ q.start_date # NoDate
  /\ q.end_date # NoDate
  /\ ValidBooking(q)

\* POST /api/bookings/create: authenticateUser (401), requireContractor (403),
\* the schema check (400), the read of the property (404), the insert of a
\* pending booking under its new id b (an error answers 500), the
\* booking_created notification, then 201.
CreateBooking(k, b, q, found, ok, outcome) ==
  /\ kresp[k] = 0
  /\ \A j \in Replays : j < k => kresp[j] # 0
  /\ kbody' = [kbody EXCEPT ![k] = q]
  /\ IF /\ RequireContractor(RoleOf(q.user))
        /\ ValidCreate(q)
        /\ found /\ q.property_id \in PropertyIds
        /\ ok
       THEN /\ bookings[b] = "none"
            /\ bookings' = [bookings EXCEPT ![b] = "pending"]
            /\ bookingRow' = [bookingRow EXCEPT ![b] =
                                [start_date |-> q.start_date, end_date |-> q.end_date,
                                 price |-> properties[q.property_id].price]]
            /\ bookingKeys' = [bookingKeys EXCEPT ![b] =
                                 [property_id |-> q.property_id, contractor_id |-> q.user]]
            /\ SendWebhookEvent("booking_created", b, outcome)
            /\ kresp' = [kresp EXCEPT ![k] = 201]
       ELSE /\ kresp' = [kresp EXCEPT ![k] =
                           IF RoleOf(q.user) = "" THEN 401
                           ELSE IF ~RequireContractor(RoleOf(q.user)) THEN 403
                           ELSE IF ~ValidCreate(q) THEN 400
                           ELSE IF ~found \/ q.property_id \notin PropertyIds THEN 404
                           ELSE 500]
            /\ UNCHANGED <<bookings, bookingRow, bookingKeys, notified, emitted>>
  /\ UNCHANGED <<avars, ovars, mvars, ivars, properties, gbody, gresp, invoices, sessions,
                 cpc, cbody, csession, cresp, wpc, wevent, wverified, wresp>>

\* MayView with a seeded fault: every contractor passes.
MayView_AnyContractor(user, id) ==
  \/ RoleOf(user) \in {"admin", "contractor"}
  \/ properties[bookingKeys[id].property_id].owner_id = user

\* The permission test of GET /api/bookings/:id.
MayView(user, id) ==
  \/ RoleOf(user) = "admin"
  \/ bookingKeys[id].contractor_id = user
  \/ properties[bookingKeys[id].property_id].owner_id = user

\* GET /api/bookings/:id: authenticateUser (401), the read of the booking with
\* its property (an error, or no row, answers 404), the permission test (403),
\* then 200 with the booking.
GetBooking(g, m, ok) ==
  /\ gresp[g] = 0
  /\ \A j \in Replays : j < g => gresp[j] # 0
  /\ gbody' = [gbody EXCEPT ![g] = m]
  /\ gresp' = [gresp EXCEPT ![g] =
                 IF RoleOf(m.user) = "" THEN 401
                 ELSE IF ~ok \/ m.id \notin BookingIds THEN 404
                 ELSE IF bookings[m.id] = "none" THEN 404
                 ELSE IF ~MayView(m.user, m.id) THEN 403
                 ELSE 200]
  /\ UNCHANGED <<avars, ovars, svars, mvars, ivars, properties, bookingKeys, kbody, kresp>>

\* One booking, create-session requests and webhook deliveries, concurrent, every
\* call failing or not.
NextStripe ==
  \/ \E b \in BookingIds, ok \in BOOLEAN, o \in NotifyOutcomes :
       CreateBooking(FirstRequest, b, ScenarioCreate, TRUE, ok, o)
  \/ \E c \in SessionRequests, ok \in BOOLEAN :
       \/ \E b \in BookingIds \cup {"not-a-uuid"} : SessionFetch(c, b, ok)
       \/ SessionOpen(c, ok)
       \/ SessionInvoice(c, ok)
  \/ \E h \in Deliveries, ok \in BOOLEAN :
       \/ \E e \in Events, configured \in BOOLEAN : WebhookReceive(h, e, configured, ok)
       \/ WebhookBooking(h, ok)
       \/ \E o \in NotifyOutcomes : WebhookNotify(h, o)

SpecStripe == Init /\ [][NextStripe]_vars

\* Admin confirmation requests by any actor, concurrent with one booking, one
\* create-session request and one webhook delivery, every call failing or not.
NextAdmin ==
  \/ \E b \in BookingIds, ok \in BOOLEAN :
       CreateBooking(FirstRequest, b, ScenarioCreate, TRUE, ok, "skipped")
  \/ \E ok \in BOOLEAN :
       \/ \E b \in BookingIds : SessionFetch(FirstRequest, b, ok)
       \/ SessionOpen(FirstRequest, ok)
       \/ SessionInvoice(FirstRequest, ok)
  \/ \E ok \in BOOLEAN :
       \/ \E e \in Events, configured \in BOOLEAN :
            WebhookReceive(FirstRequest, e, configured, ok)
       \/ WebhookBooking(FirstRequest, ok)
       \/ \E o \in NotifyOutcomes : WebhookNotify(FirstRequest, o)
  \/ \E a \in AdminRequests, ok \in BOOLEAN :
       \/ \E m \in AdminBodies : AdminReceive(a, m, ok)
       \/ AdminUpdate(a, ok)
       \/ \E o \in NotifyOutcomes : AdminNotify(a, o)

SpecAdmin == Init /\ [][NextAdmin]_vars

\* Repeated create-session requests for one booking and repeated deliveries of
\* the completed events of their sessions, concurrent, every persistence call
\* and Stripe succeeding, the payment notification reaching the CRM or not.
NextReplay ==
  \/ \E b \in BookingIds :
       CreateBooking(FirstRequest, b, ScenarioCreate, TRUE, TRUE, "skipped")
  \/ \E c \in Replays :
       \/ \E b \in BookingIds : SessionFetch(c, b, TRUE)
       \/ SessionOpen(c, TRUE)
       \/ SessionInvoice(c, TRUE)
  \/ \E h \in Replays :
       \/ \E e \in CompletedEvents : WebhookReceive(h, e, TRUE, TRUE)
       \/ WebhookBooking(h, TRUE)
       \/ \E o \in {"sent", "failed"} : WebhookNotify(h, o)

SpecReplay == Init /\ [][NextReplay]_vars

\* The events Stripe signs for the sessions it holds: the session was opened by
\* createCheckoutSession and the event carries the session's metadata.bookingId.
SessionEvents ==
  {e \in Events : /\ e.signature = "valid"
                  /\ e.session \in DOMAIN sessions
                  /\ e.bookingId = sessions[e.session].bookingId}

\* One booking, repeated create-session requests and repeated deliveries of the
\* events of the sessions Stripe holds, concurrent, every persistence call and
\* Stripe failing or not.
NextPayment ==
  \/ \E b \in BookingIds :
       CreateBooking(FirstRequest, b, ScenarioCreate, TRUE, TRUE, "skipped")
  \/ \E c \in Replays, ok \in BOOLEAN :
       \/ \E b \in BookingIds : SessionFetch(c, b, ok)
       \/ SessionOpen(c, ok)
       \/ SessionInvoice(c, ok)
  \/ \E h \in Replays, ok \in BOOLEAN :
       \/ \E e \in Events : e \in SessionEvents /\ WebhookReceive(h, e, TRUE, ok)
       \/ WebhookBooking(h, ok)
       \/ \E o \in {"sent", "failed"} : WebhookNotify(h, o)

SpecPayment == Init /\ [][NextPayment]_vars

\* The bookings createBookingSchema accepts, over the days and prices in range.
ValidBookingRows == {d \in BookingRows : ValidBooking(d)}

\* Properties of any price in range.
InitAmount ==
  /\ InitAssignment /\ InitOverlapIdle /\ InitStripe /\ InitAdmin /\ InitIntake
  /\ InitBookingRequests
  /\ properties \in {PropertiesAt(n) : n \in 0..MaxPrice}

\* One create-session request for a booking of any accepted dates and price.
NextAmount ==
  \/ \E b \in BookingIds, d \in ValidBookingRows :
       /\ d.price = properties["p1"].price
       /\ CreateBooking(FirstRequest, b, CreateOf(d), TRUE, TRUE, "skipped")
  \/ \E c \in SessionRequests :
       \/ \E b \in BookingIds : SessionFetch(c, b, TRUE)
       \/ SessionOpen(c, TRUE)
       \/ SessionInvoice(c, TRUE)

SpecAmount == InitAmount /\ [][NextAmount]_vars

\* One bookings/create request and one GET bookings/:id request by any requester
\* with any payload, concurrent, every persistence call succeeding, the
\* notification reaching the CRM or not.
NextBookings ==
  \/ \E b \in BookingIds, q \in CreateBodies, o \in NotifyOutcomes :
       CreateBooking(FirstRequest, b, q, TRUE, TRUE, o)
  \/ \E m \in GetBodies : GetBooking(FirstRequest, m, TRUE)

SpecBookings == Init /\ [][NextBookings]_vars

\* ------------------------------------------------------ booking intake

\* The rows the handler maps for the insert: the entries with both dates.
Kept(entries) ==
  SelectSeq(entries, LAMBDA e : e.startDate # NoDate /\ e.endDate # NoDate)

\* The map callback throws: startDate >= endDate on Date objects.
InvalidRange(e) == NewDate(e.startDate) >= NewDate(e.endDate)

Throws(entries) ==
  \E i \in DOMAIN Kept(entries) : InvalidRange(Kept(entries)[i])

\* Math.max of the numbers of the codes read, plus one; 1 when none was read.
NextNumber(codes) ==
  IF codes = {} THEN 1 ELSE (CHOOSE n \in codes : \A k \in codes : k <= n) + 1

\* bookingId of a payload whose entry has no created row: `booking_${i + 1}`,
\* written here as the negated position.
FallbackId(i) == 0 - i

IntakeDone(r, status, error) ==
  /\ ipc' = [ipc EXCEPT ![r] = "done"]
  /\ iresp' = [iresp EXCEPT ![r] = [status |-> status, error |-> error]]

\* POST /api/booking-requests up to its first round trip: the schema check and
\* supabaseAdmin.auth.signUp, which answers an error, no user, or a user.
IntakeSignUp(r, b, signup) ==
  /\ ipc[r] = "idle"
  /\ \A q \in IntakeRequests : q < r => ipc[q] # "idle"
  /\ ibody' = [ibody EXCEPT ![r] = b]
  /\ IF b.email = ""
       THEN IntakeDone(r, 400, "Validation error")
       ELSE IF signup = "error"
         THEN IntakeDone(r, 400, "Authentication failed")
         ELSE IF signup = "none"
           THEN IntakeDone(r, 500, "Failed to create user account")
           ELSE /\ ipc' = [ipc EXCEPT ![r] = "codes"]
                /\ UNCHANGED iresp
  /\ UNCHANGED <<contractor, landlord, booking_requests, booking_dates, ghl, iurl,
                 icode, irequest, idates, inext>>
  /\ UNCHANGED <<avars, ovars, svars, mvars, kvars>>

\* Step 2: the read of the existing contractor codes; the error is not looked
\* at, a failed read leaves nextNumber at 1.
IntakeCodes(r, ok) ==
  /\ ipc[r] = "codes"
  /\ icode' = [icode EXCEPT ![r] =
                 IF ok THEN NextNumber({contractor[i].code : i \in DOMAIN contractor})
                       ELSE 1]
  /\ ipc' = [ipc EXCEPT ![r] = "contractor"]
  /\ UNCHANGED <<contractor, landlord, booking_requests, booking_dates, ghl, iurl,
                 ibody, iresp, irequest, idates, inext>>
  /\ UNCHANGED <<avars, ovars, svars, mvars, kvars>>

\* Step 3: the insert of the contractor row; an error answers 500.
IntakeContractor(r, ok) ==
  /\ ipc[r] = "contractor"
  /\ IF ok
       THEN /\ contractor' = Append(contractor, [email |-> ibody[r].email,
                                                 code |-> icode[r]])
            /\ ipc' = [ipc EXCEPT ![r] = "request"]
            /\ UNCHANGED iresp
       ELSE /\ IntakeDone(r, 500, "Failed to create contractor profile")
            /\ UNCHANGED contractor
  /\ UNCHANGED <<landlord, booking_requests, booking_dates, ghl, iurl, ibody,
                 icode, irequest, idates, inext>>
  /\ UNCHANGED <<avars, ovars, svars, mvars, kvars>>

\* Step 6 begins: the URL is read; without it, or without entries, 201 at once.
EnterGhl(r, configured) ==
  /\ iurl' = [iurl EXCEPT ![r] = configured]
  /\ IF configured /\ Len(ibody[r].bookings) > 0
       THEN /\ ipc' = [ipc EXCEPT ![r] = "ghl"]
            /\ inext' = [inext EXCEPT ![r] = 1]
            /\ UNCHANGED iresp
       ELSE /\ IntakeDone(r, 201, "")
            /\ UNCHANGED inext

\* Step 4: the insert of the booking_requests row (an error answers 500), then
\* the filter and map of Step 5, whose throw is caught and answered 500.
IntakeRequest(r, ok, configured) ==
  /\ ipc[r] = "request"
  /\ IF ~ok
       THEN /\ IntakeDone(r, 500, "Failed to create booking request")
            /\ UNCHANGED <<booking_requests, irequest, iurl, inext>>
       ELSE /\ booking_requests' = Append(booking_requests,
                  [id |-> Len(booking_requests) + 1, email |-> ibody[r].email])
            /\ irequest' = [irequest EXCEPT ![r] = Len(booking_requests) + 1]
            /\ IF Throws(ibody[r].bookings)
                 THEN /\ IntakeDone(r, 500, "Internal server error")
                      /\ UNCHANGED <<iurl, inext>>
                 ELSE IF Kept(ibody[r].bookings) = <<>>
                   THEN EnterGhl(r, configured)
                   ELSE /\ ipc' = [ipc EXCEPT ![r] = "dates"]
                        /\ UNCHANGED <<iresp, iurl, inext>>
  /\ UNCHANGED <<contractor, landlord, booking_dates, ghl, ibody, icode, idates>>
  /\ UNCHANGED <<avars, ovars, svars, mvars, kvars>>

\* The rows Step 5 inserts, with the ids the table gives them.
NewDates(r) ==
  [i \in DOMAIN Kept(ibody[r].bookings) |->
     [id |-> Len(booking_dates) + i,
      booking_request_id |-> irequest[r],
      start_date |-> Kept(ibody[r].bookings)[i].startDate,
      end_date |-> Kept(ibody[r].bookings)[i].endDate]]

\* Step 5: the insert of the booking_dates rows in one call; an error answers 500.
IntakeDates(r, ok, configured) ==
  /\ ipc[r] = "dates"
  /\ IF ok
       THEN /\ booking_dates' = booking_dates \o NewDates(r)
            /\ idates' = [idates EXCEPT ![r] = NewDates(r)]
            /\ EnterGhl(r, configured)
       ELSE /\ IntakeDone(r, 500, "Failed to create booking dates")
            /\ UNCHANGED <<booking_dates, idates, iurl, inext>>
  /\ UNCHANGED <<contractor, landlord, booking_requests, ghl, ibody, icode, irequest>>
  /\ UNCHANGED <<avars, ovars, svars, mvars, kvars>>

\* The payload Step 6 posts for entry i of the request's bookings.
GhlPayload(r, i) ==
  [request |-> r,
   bookingId |-> IF i <= Len(idates[r]) THEN idates[r][i].id ELSE FallbackId(i),
   bookingStartDate |-> ibody[r].bookings[i].startDate,
   bookingEndDate |-> ibody[r].bookings[i].endDate]

\* Step 6: one axios.post of the loop; a failed post leaves the loop for the
\* catch; after the last entry, or the catch, 201.
IntakeGhl(r, outcome) ==
  /\ ipc[r] = "ghl"
  /\ ghl' = Append(ghl, GhlPayload(r, inext[r]))
  /\ IF outcome = "sent" /\ inext[r] < Len(ibody[r].bookings)
       THEN /\ inext' = [inext EXCEPT ![r] = @ + 1]
            /\ UNCHANGED <<ipc, iresp>>
       ELSE /\ IntakeDone(r, 201, "")
            /\ UNCHANGED inext
  /\ UNCHANGED <<contractor, landlord, booking_requests, booking_dates, iurl,
                 ibody, icode, irequest, idates>>
  /\ UNCHANGED <<avars, ovars, svars, mvars, kvars>>

\* Intake requests of any address and any list of entries, every call failing
\* or not.
NextIntake ==
  \E r \in IntakeRequests, ok \in BOOLEAN, configured \in BOOLEAN :
    \/ \E b \in IntakeBodies, signup \in {"error", "none", "user"} :
         IntakeSignUp(r, b, signup)
    \/ IntakeCodes(r, ok)
    \/ IntakeContractor(r, ok)
    \/ IntakeRequest(r, ok, configured)
    \/ IntakeDates(r, ok, configured)
    \/ \E o \in {"sent", "failed"} : IntakeGhl(r, o)

SpecIntake == Init /\ [][NextIntake]_vars

\* The bodies of new requesters with no entry or one entry of a valid range.
NewcomerBodies ==
  {b \in IntakeBodies : /\ b.email \notin {"", "l@x", "c@x"}
                        /\ Len(b.bookings) <= 1
                        /\ Kept(b.bookings) = b.bookings
                        /\ ~Throws(b.bookings)}

\* Concurrent intake requests of new requesters, each with an address of its
\* own, every call succeeding, the notification posts reaching the CRM or not.
NextCodes ==
  \E r \in Replays, configured \in BOOLEAN :
    \/ \E b \in NewcomerBodies :
         /\ \A q \in Replays : ibody[q].email # b.email
         /\ IntakeSignUp(r, b, "user")
    \/ IntakeCodes(r, TRUE)
    \/ IntakeContractor(r, TRUE)
    \/ IntakeRequest(r, TRUE, configured)
    \/ IntakeDates(r, TRUE, configured)
    \/ \E o \in {"sent", "failed"} : IntakeGhl(r, o)

SpecCodes == Init /\ [][NextCodes]_vars

\* The bodies of one new requester whose entries are all the same valid range.
RepeatedBodies ==
  {b \in IntakeBodies :
     /\ b.email = "n@x"
     /\ \A i \in DOMAIN b.bookings : b.bookings[i] = [startDate |-> 1, endDate |-> 2]}

\* The four routes that notify, concurrent: one bookings/create, one
\* create-session and one delivery of an event of its session, admin
\* confirmations, one intake request; every persistence call and Stripe
\* succeeding, every notification sent, skipped or failing.
NextNotify ==
  \/ \E b \in BookingIds, o \in NotifyOutcomes :
       CreateBooking(FirstRequest, b, ScenarioCreate, TRUE, TRUE, o)
  \/ \E b \in BookingIds : SessionFetch(FirstRequest, b, TRUE)
  \/ SessionOpen(FirstRequest, TRUE)
  \/ SessionInvoice(FirstRequest, TRUE)
  \/ \E e \in Events : e \in SessionEvents /\ WebhookReceive(FirstRequest, e, TRUE, TRUE)
  \/ WebhookBooking(FirstRequest, TRUE)
  \/ \E o \in NotifyOutcomes : WebhookNotify(FirstRequest, o)
  \/ \E a \in AdminRequests :
       \/ \E m \in AdminBodies : m.role = "admin" /\ AdminReceive(a, m, TRUE)
       \/ AdminUpdate(a, TRUE)
       \/ \E o \in NotifyOutcomes : AdminNotify(a, o)
  \/ \E configured \in BOOLEAN :
       \/ \E b \in RepeatedBodies : IntakeSignUp(FirstRequest, b, "user")
       \/ IntakeCodes(FirstRequest, TRUE)
       \/ IntakeContractor(FirstRequest, TRUE)
       \/ IntakeRequest(FirstRequest, TRUE, configured)
       \/ IntakeDates(FirstRequest, TRUE, configured)
       \/ \E o \in {"sent", "failed"} : IntakeGhl(FirstRequest, o)

SpecNotify == Init /\ [][NextNotify]_vars

\* ------------------------------------------------------------- claims

\* The inclusive overlap of two stored intervals, on days.
Overlapping(a, b) == a.start_date <= b.end_date /\ a.end_date >= b.start_date

\* C1: in every reachable state, under any interleaving of concurrent
\* assignment requests, no two rows of one property overlap inclusively.
C1_NoOverlappingAssignments ==
  \A i, j \in DOMAIN booked_properties :
    (i < j /\ booked_properties[i].property_id = booked_properties[j].property_id)
      => ~Overlapping(booked_properties[i], booked_properties[j])

\* C2: in every reachable state, under any interleaving of concurrent
\* assignment requests, a booking date has at most one row.
C2_AtMostOneAssignmentPerDate ==
  \A i, j \in DOMAIN booked_properties :
    i < j => booked_properties[i].booking_id # booked_properties[j].booking_id

\* C3: a request for a date range with no assignment whose interval overlaps a
\* stored row of its property is answered 409 DATE_CONFLICT when it takes its
\* overlap check, reports the dates of such a row, and inserts nothing.
C3_OverlapRejected ==
  [][\A r \in Requests :
       (/\ pc[r] = "overlap" /\ pc'[r] # "overlap"
        /\ \A x \in Rows : x.booking_id # body[r].booking_date_id
        /\ \E x \in Rows : x.property_id = body[r].property_id /\ Overlapping(body[r], x))
       => /\ pc'[r] = "done"
          /\ resp'[r].status = 409 /\ resp'[r].code = "DATE_CONFLICT"
          /\ \E x \in Rows : /\ x.property_id = body[r].property_id
                               /\ Overlapping(body[r], x)
                               /\ resp'[r].conflictingDates = <<x.start_date, x.end_date>>
          /\ booked_properties' = booked_properties]_vars

\* C4: a request whose booking date already has one or more rows is answered
\* 409 BOOKING_ALREADY_EXISTS and inserts nothing, whatever its property and
\* interval and however many rows the date has.
C4_ReassignmentRejected ==
  [][\A r \in Requests :
       (/\ pc[r] = "idle" /\ pc'[r] # "idle"
        /\ ~MissingFields(body'[r])
        /\ \E x \in Rows : x.booking_id = body'[r].booking_date_id)
       => /\ pc'[r] = "done"
          /\ resp'[r].status = 409 /\ resp'[r].code = "BOOKING_ALREADY_EXISTS"
          /\ booked_properties' = booked_properties]_vars

WellFormed(iv) == iv.start_date <= iv.end_date
SharesDay(a, b) ==
  \E d \in ProbeDays : /\ a.start_date <= d /\ d <= a.end_date
                        /\ b.start_date <= d /\ d <= b.end_date

\* C5: for well-formed day intervals A (requested) and B (stored) the conflict
\* decision is true exactly when a1 <= b2 and a2 >= b1: true when they share a
\* day (touching end points included), false when one ends before the other starts.
C5_OverlapPredicate ==
  (decided /\ WellFormed(newIv) /\ WellFormed(oldIv)) =>
    /\ conflict <=> (newIv.start_date <= oldIv.end_date /\ newIv.end_date >= oldIv.start_date)
    /\ SharesDay(newIv, oldIv) => conflict
    /\ (newIv.end_date < oldIv.start_date \/ oldIv.end_date < newIv.start_date) => ~conflict

\* C5 witness: the test answered a conflict for a requested interval that
\* starts on the day the stored one ends.
C5_Witness ==
  /\ decided /\ conflict
  /\ WellFormed(newIv) /\ WellFormed(oldIv)
  /\ newIv.start_date = oldIv.end_date /\ newIv.start_date < newIv.end_date
  /\ oldIv.start_date < oldIv.end_date

\* C6: the preconditions are evaluated in the order fields, existing assignment,
\* overlap, and the first failing one decides the answer, each with its own code:
\* a missing field answers MISSING_FIELDS whatever is stored, an assigned date
\* range answers BOOKING_ALREADY_EXISTS even when the interval also overlaps, and
\* only then an overlap answers DATE_CONFLICT.
C6_PreconditionOrder ==
  [][\A r \in Requests :
       /\ (pc[r] = "idle" /\ pc'[r] # "idle" /\ MissingFields(body'[r]))
            => (pc'[r] = "done" /\ resp'[r].status = 400 /\ resp'[r].code = "MISSING_FIELDS")
       /\ (/\ pc[r] = "idle" /\ pc'[r] # "idle" /\ ~MissingFields(body'[r])
           /\ \E x \in Rows : x.booking_id = body'[r].booking_date_id)
            => (pc'[r] = "done" /\ resp'[r].status = 409
                /\ resp'[r].code = "BOOKING_ALREADY_EXISTS")
       /\ (/\ pc[r] = "overlap" /\ pc'[r] # "overlap"
           /\ \A x \in Rows : x.booking_id # body[r].booking_date_id
           /\ \E x \in Rows : x.property_id = body[r].property_id /\ Overlapping(body[r], x))
            => (pc'[r] = "done" /\ resp'[r].status = 409
                /\ resp'[r].code = "DATE_CONFLICT")]_vars

Rejected(rs) == rs.status = 400 \/ rs.status = 409

\* C7: a rejected request (400, 409 BOOKING_ALREADY_EXISTS, 409 DATE_CONFLICT)
\* has issued no mutating call, and the step that rejects it leaves the rows,
\* every is_available flag and every booking_dates status unchanged.
C7_RejectionMutatesNothing ==
  [][\A r \in Requests :
       (pc'[r] = "done" /\ Rejected(resp'[r]))
         => /\ issued'[r] = <<>>
            /\ pc[r] # "done" => tables' = tables]_vars

\* C7 witness: a request was answered 409 DATE_CONFLICT against a stored row.
C7_Witness ==
  \E r \in Requests :
    /\ pc[r] = "done" /\ resp[r].status = 409 /\ resp[r].code = "DATE_CONFLICT"
    /\ booked_properties # <<>>

\* C8: a request that passed the three preconditions and saw no persistence call
\* fail is answered 201; exactly one row, linking its booking date to its
\* property with its interval, was added by it; the property's flag is false and
\* the booking date's status confirmed; the insert came before both updates.
C8_SuccessfulAssignment ==
  \A r \in Requests :
    (pc[r] = "done" /\ ~Rejected(resp[r]) /\ logged[r] = {}) =>
      /\ resp[r].status = 201
      /\ resp[r].data = insertData[r]
      /\ Cardinality({i \in DOMAIN booked_properties :
                        booked_properties[i].id = insertData[r]}) = 1
      /\ \E i \in DOMAIN booked_properties :
            /\ booked_properties[i].id = insertData[r]
            /\ booked_properties[i].booking_id = body[r].booking_date_id
            /\ booked_properties[i].property_id = body[r].property_id
            /\ booked_properties[i].start_date = body[r].start_date
            /\ booked_properties[i].end_date = body[r].end_date
      /\ is_available[body[r].property_id] = FALSE
      /\ date_status[body[r].booking_date_id] = "confirmed"
      /\ issued[r] = <<"insert", "updateProperty", "updateDate">>

\* C8 witness: a request was answered 201 with no persistence call failing.
C8_Witness ==
  \E r \in Requests :
    pc[r] = "done" /\ resp[r].status = 201 /\ logged[r] = {}

\* A row whose inserting request saw its property update fail and had answered
\* before request r arrived.
LeftAvailable(x, r) ==
  \E q \in answered[r] : insertData[q] = x.id /\ "property" \in logged[q]

\* C9: a request whose property or booking-date update failed after its insert
\* is still answered 201 and its row is kept; and a later request for another
\* date range whose interval overlaps the row of such a request, the property
\* still reading available, is answered 409 DATE_CONFLICT all the same.
C9_FlagIndependentConflict ==
  [][\A r \in Requests :
       /\ (pc'[r] = "done" /\ logged'[r] \cap {"property", "booking_date"} # {})
            => /\ resp'[r].status = 201
               /\ \E x \in Rows : x.id = insertData'[r]
               /\ Len(booked_properties') >= Len(booked_properties)
       /\ (/\ pc[r] = "overlap" /\ pc'[r] # "overlap"
           /\ is_available[body[r].property_id]
           /\ \A x \in Rows : x.booking_id # body[r].booking_date_id
           /\ \E x \in Rows : /\ x.property_id = body[r].property_id
                               /\ Overlapping(body[r], x)
                               /\ LeftAvailable(x, r))
            => /\ pc'[r] = "done"
               /\ resp'[r].status = 409 /\ resp'[r].code = "DATE_CONFLICT"
               /\ booked_properties' = booked_properties]_vars

\* A delivery whose signature header is missing or fails verification.
Unverified(e) == e.signature # "valid"

\* C10: a webhook delivery whose signature header is missing or fails
\* verification is answered 400 at once and changes no invoice and no booking
\* and sends no notification, whatever event type and payload it carries.
C10_UnverifiedWebhookRejected ==
  [][\A h \in Deliveries :
       (wpc[h] = "idle" /\ wpc'[h] # "idle" /\ Unverified(wevent'[h]))
         => /\ wpc'[h] = "done" /\ wresp'[h] = 400
            /\ invoices' = invoices
            /\ bookings' = bookings
            /\ notified' = notified]_vars

\* C10 witness: a completed-session event for a stored unpaid invoice and an
\* existing booking, delivered with a non-matching signature, was answered 400.
C10_Witness ==
  \E h \in Deliveries :
    /\ wpc[h] = "done" /\ wresp[h] = 400
    /\ wevent[h].signature = "invalid"
    /\ wevent[h].type = "checkout.session.completed"
    /\ wevent[h].bookingId # ""
    /\ bookings[wevent[h].bookingId] = "pending"
    /\ \E i \in DOMAIN invoices :
          /\ invoices[i].stripe_session_id = wevent[h].session
          /\ invoices[i].status = "unpaid"

\* Every invoice of the session in the table invs is paid.
AllPaid(invs, id) ==
  \A i \in DOMAIN invs : invs[i].stripe_session_id = id => invs[i].status = "paid"

\* The calls of sendWebhookEvent counted in em, over every kind.
RECURSIVE SumOver(_, _)
SumOver(f, ks) ==
  IF ks = {} THEN 0
  ELSE LET k == CHOOSE x \in ks : TRUE IN f[k] + SumOver(f, ks \ {k})
Emissions(em) == SumOver(em, NotificationKinds)

\* C11: every delivery of a verified checkout.session.completed event, the first
\* or a repeated one, in sequence or concurrent with another, sets the invoices
\* of its session and its booking to paid, changes nothing when they are paid
\* already, is answered 200 and calls sendWebhookEvent once, for
\* payment_succeeded; a paid invoice and a paid booking stay paid.
C11_ReplayedCompletion ==
  [][/\ \A h \in Replays :
          LET e == wevent'[h] IN
          e \in CompletedEvents =>
            /\ (wpc[h] = "idle" /\ wpc'[h] # "idle") =>
                 /\ wpc'[h] = "booking"
                 /\ DOMAIN invoices' = DOMAIN invoices
                 /\ AllPaid(invoices', e.session)
                 /\ AllPaid(invoices, e.session) => invoices' = invoices
                 /\ \A i \in DOMAIN invoices :
                      invoices[i].stripe_session_id # e.session => invoices'[i] = invoices[i]
                 /\ bookings' = bookings /\ emitted' = emitted
            /\ (wpc[h] = "booking" /\ wpc'[h] # "booking") =>
                 /\ wpc'[h] = "notify"
                 /\ bookings[e.bookingId] # "none" => bookings'[e.bookingId] = "paid"
                 /\ bookings[e.bookingId] \in {"none", "paid"} => bookings' = bookings
                 /\ invoices' = invoices /\ emitted' = emitted
            /\ (wpc[h] = "notify" /\ wpc'[h] # "notify") =>
                 /\ wpc'[h] = "done" /\ wresp'[h] = 200
                 /\ emitted'[<<"payment_succeeded", e.bookingId>>]
                      = emitted[<<"payment_succeeded", e.bookingId>>] + 1
                 /\ Emissions(emitted') = Emissions(emitted) + 1
                 /\ invoices' = invoices /\ bookings' = bookings
     /\ \A i \in DOMAIN invoices :
          invoices[i].status = "paid" => invoices'[i].status = "paid"
     /\ \A b \in BookingIds : bookings[b] = "paid" => bookings'[b] = "paid"]_vars

\* C11 witness: two deliveries of the completed event of one session were both
\* answered 200, the session's invoice and the booking being paid.
C11_Witness ==
  \E h1, h2 \in Replays :
    /\ h1 # h2
    /\ wpc[h1] = "done" /\ wpc[h2] = "done"
    /\ wresp[h1] = 200 /\ wresp[h2] = 200
    /\ wevent[h1] \in CompletedEvents /\ wevent[h1] = wevent[h2]
    /\ \E i \in DOMAIN invoices :
          /\ invoices[i].stripe_session_id = wevent[h1].session
          /\ invoices[i].status = "paid"
    /\ bookings[wevent[h1].bookingId] = "paid"
    /\ emitted[<<"payment_succeeded", wevent[h1].bookingId>>] = 2

\* C12: an invoice row enters the table unpaid, and turns paid only in a step of
\* a delivery that takes a signature-verified checkout.session.completed event
\* of that invoice's session id; no other step sets an invoice to paid.
C12_PaidOnlyByVerifiedCompletion ==
  [][/\ \A i \in DOMAIN invoices' :
          i \notin DOMAIN invoices => invoices'[i].status = "unpaid"
     /\ \A i \in DOMAIN invoices :
          (invoices[i].status # "paid" /\ invoices'[i].status = "paid") =>
            \E h \in Replays :
              /\ wpc[h] = "idle" /\ wpc'[h] # "idle"
              /\ wverified'[h]
              /\ wevent'[h].signature = "valid"
              /\ wevent'[h].type = "checkout.session.completed"
              /\ wevent'[h].session = invoices[i].stripe_session_id]_vars

\* C12 witness: an invoice is paid, an admin request has confirmed or cancelled
\* the booking, and create-session has answered 200.
C12_Witness ==
  /\ \E i \in DOMAIN invoices : invoices[i].status = "paid"
  /\ \E c \in Replays : cpc[c] = "done" /\ cresp[c] = 200
  /\ \E a \in AdminRequests : apc[a] = "done" /\ aresp[a] = 200

\* C13: every delivery whose signature verifies is answered 200, whatever its
\* event type, its payload and the outcome of its persistence calls.
C13_VerifiedAnswered200 ==
  \A h \in Replays : (wpc[h] = "done" /\ wverified[h]) => wresp[h] = 200

\* C14: a verified checkout.session.expired event, or one of an unrecognized
\* type, changes no invoice and no booking; the expired one with a booking id
\* calls sendWebhookEvent once, for payment_expired, the others never; all are
\* answered 200.
C14_ExpiredAndUnknownChangeNothing ==
  [][\A h \in Replays :
       LET e == wevent'[h] IN
       (wverified'[h] /\ e.type # "checkout.session.completed") =>
         /\ (wpc[h] = "idle" /\ wpc'[h] # "idle") =>
              /\ invoices' = invoices /\ bookings' = bookings /\ emitted' = emitted
              /\ IF e.type = "checkout.session.expired" /\ e.bookingId # ""
                   THEN wpc'[h] = "notify"
                   ELSE wpc'[h] = "done" /\ wresp'[h] = 200
         /\ (wpc[h] = "notify" /\ wpc'[h] # "notify") =>
              /\ wpc'[h] = "done" /\ wresp'[h] = 200
              /\ invoices' = invoices /\ bookings' = bookings
              /\ emitted'[<<"payment_expired", e.bookingId>>]
                   = emitted[<<"payment_expired", e.bookingId>>] + 1
              /\ Emissions(emitted') = Emissions(emitted) + 1]_vars

\* C14 witness: a verified expired event carrying the booking id of a pending
\* booking with an unpaid invoice was answered 200 after one payment_expired call.
C14_Witness ==
  \E h \in Replays :
    /\ wpc[h] = "done" /\ wresp[h] = 200 /\ wverified[h]
    /\ wevent[h].type = "checkout.session.expired"
    /\ wevent[h].bookingId # ""
    /\ bookings[wevent[h].bookingId] = "pending"
    /\ emitted[<<"payment_expired", wevent[h].bookingId>>] = 1
    /\ \E i \in DOMAIN invoices :
          /\ invoices[i].stripe_session_id = wevent[h].session
          /\ invoices[i].status = "unpaid"

\* The days from the start date to the end date of a bookings row.
DaySpan(row) == row.end_date - row.start_date

\* C15: for a booking whose dates are whole days with start < end and whose
\* property costs p a day, create-session opens the Stripe session for p times
\* the days from start to end (in cents) and stores that amount in the invoice
\* it inserts; 50 a day over 9 days is 450.
C15_AmountIsPriceTimesDays ==
  \A c \in Replays :
    LET row == bookingRow[cbody[c]] IN
    /\ (cpc[c] = "invoice" \/ (cpc[c] = "done" /\ cresp[c] = 200)) =>
         /\ row.start_date < row.end_date
         /\ sessions[csession[c]].amount_total = 100 * (row.price * DaySpan(row))
         /\ (row.price = 50 /\ DaySpan(row) = 9) =>
              sessions[csession[c]].amount_total = 45000
    /\ (cpc[c] = "done" /\ cresp[c] = 200) =>
         \E i \in DOMAIN invoices :
           /\ invoices[i].stripe_session_id = csession[c]
           /\ invoices[i].booking_id = cbody[c]
           /\ invoices[i].amount = row.price * DaySpan(row)
           /\ (row.price = 50 /\ DaySpan(row) = 9) => invoices[i].amount = 450

\* C15 witness: create-session answered 200 for a booking of 9 days at 50 a day
\* with an invoice of 450.
C15_Witness ==
  \E c \in Replays :
    /\ cpc[c] = "done" /\ cresp[c] = 200
    /\ bookingRow[cbody[c]].price = 50
    /\ DaySpan(bookingRow[cbody[c]]) = 9
    /\ \E i \in DOMAIN invoices :
          invoices[i].stripe_session_id = csession[c] /\ invoices[i].amount = 450

\* C16: after any sequence of create-session requests, repeated or concurrent
\* ones for one booking included, a booking has at most one invoice row.
C16_OneInvoicePerBooking ==
  \A i, j \in DOMAIN invoices :
    i < j => invoices[i].booking_id # invoices[j].booking_id

\* C17: a booking's status becomes confirmed or cancelled only in the update
\* step of an admin confirmation request whose actor is authenticated with role
\* admin, for that booking and that status; a request of an authenticated actor
\* of another role is answered 403, one of an unauthenticated actor 401, and
\* neither changes a booking or an invoice or sends a notification.
C17_ConfirmOnlyByAdmin ==
  [][/\ \A b \in BookingIds :
          (bookings'[b] # bookings[b] /\ bookings'[b] \in {"confirmed", "cancelled"}) =>
            \E a \in AdminRequests :
              /\ apc[a] = "update" /\ apc'[a] = "notify"
              /\ abody[a].role = "admin"
              /\ abody[a].id = b
              /\ abody[a].status = bookings'[b]
     /\ \A a \in AdminRequests :
          (apc[a] = "idle" /\ apc'[a] # "idle" /\ abody'[a].role # "admin") =>
            /\ apc'[a] = "done"
            /\ aresp'[a] = IF abody'[a].role = "" THEN 401 ELSE 403
            /\ bookings' = bookings /\ invoices' = invoices /\ emitted' = emitted
     /\ \A a \in AdminRequests :
          (apc'[a] = "done" /\ abody'[a].role # "admin") => aresp'[a] \in {401, 403}]_vars

\* C17 witness: an admin's request was answered 200 and the booking, which a
\* payment callback had handled, carries the status the admin set.
C17_Witness ==
  \E a \in AdminRequests, h \in Replays :
    /\ apc[a] = "done" /\ aresp[a] = 200
    /\ abody[a].role = "admin"
    /\ bookings[abody[a].id] = abody[a].status
    /\ wpc[h] = "done" /\ wresp[h] = 200
    /\ wevent[h].type = "checkout.session.completed"

\* A bookings list with an entry of two dates whose end is not after its start.
HasBadEntry(b) ==
  \E i \in DOMAIN b.bookings :
    /\ b.bookings[i].startDate # NoDate /\ b.bookings[i].endDate # NoDate
    /\ b.bookings[i].endDate <= b.bookings[i].startDate

\* C18: an intake request that reached the date validation with an entry whose
\* endDate <= startDate is answered 400, and no booking_dates row of its batch
\* is stored.
C18_BadRangeRejected400 ==
  \A r \in IntakeRequests :
    (ipc[r] = "done" /\ irequest[r] # 0 /\ HasBadEntry(ibody[r])) =>
      /\ iresp[r].status = 400
      /\ \A i \in DOMAIN booking_dates :
            booking_dates[i].booking_request_id # irequest[r]

\* The posts Step 6 of request r made.
PostsOf(r) == {i \in DOMAIN ghl : ghl[i].request = r}

\* C19: an intake request answered 201 with the GHL URL configured has posted
\* exactly one payload per booking_dates row it created, each carrying the id
\* of its row as bookingId and that row's start and end dates.
C19_OneNotificationPerRow ==
  \A r \in IntakeRequests :
    (ipc[r] = "done" /\ iresp[r].status = 201 /\ iurl[r]) =>
      /\ Cardinality(PostsOf(r)) = Len(idates[r])
      /\ \A j \in DOMAIN idates[r] :
            /\ Cardinality({i \in PostsOf(r) : ghl[i].bookingId = idates[r][j].id}) = 1
            /\ \A i \in PostsOf(r) :
                 ghl[i].bookingId = idates[r][j].id =>
                   /\ ghl[i].bookingStartDate = idates[r][j].start_date
                   /\ ghl[i].bookingEndDate = idates[r][j].end_date

\* C20: an intake request whose address is already in the contractor table or
\* in the landlord table is rejected: its contractor insert adds no row, so
\* that no booking_requests or booking_dates row follows.
C20_ExistingEmailRejected ==
  [][\A r \in IntakeRequests :
       (/\ ipc[r] = "contractor" /\ ipc'[r] # "contractor"
        /\ \/ ibody[r].email \in landlord
           \/ \E i \in DOMAIN contractor : contractor[i].email = ibody[r].email)
       => /\ contractor' = contractor
          /\ ipc'[r] = "done" /\ iresp'[r].status >= 400]_vars

\* The rows the four routes persist.
Persisted ==
  <<bookings, bookingRow, bookingKeys, invoices, contractor, landlord, booking_requests,
    booking_dates>>

\* The step calls sendWebhookEvent for the kind, whether the post arrives or not.
Notifies(kind) == emitted'[kind] # emitted[kind]

\* C21: a notification that fails changes neither the answer nor the stored
\* rows of the request that sent it. Every step that notifies, the post arriving
\* or not, answers the route's success status (201 for bookings/create and
\* intake, 200 for the admin confirmation and the payment callback) and stores
\* what the request stores when the post arrives; a post of intake that fails
\* ends the request with 201.
C21_NotificationFailureContained ==
  [][/\ \A b \in BookingIds :
          /\ Notifies(<<"booking_created", b>>) =>
               /\ \E k \in Replays : kresp[k] = 0 /\ kresp'[k] = 201
               /\ bookings'[b] = "pending"
               /\ UNCHANGED <<invoices, contractor, landlord, booking_requests,
                              booking_dates>>
          /\ Notifies(<<"booking_confirmed", b>>) =>
               /\ \E a \in AdminRequests : apc[a] = "notify" /\ aresp'[a] = 200
               /\ UNCHANGED Persisted
          /\ Notifies(<<"payment_succeeded", b>>) \/ Notifies(<<"payment_expired", b>>) =>
               /\ \E h \in Replays : wpc[h] = "notify" /\ wresp'[h] = 200
               /\ UNCHANGED Persisted
     /\ \A r \in Replays :
          ipc[r] = "ghl" /\ ghl' # ghl =>
            /\ UNCHANGED Persisted
            /\ ipc'[r] = "done" => iresp'[r].status = 201
            /\ ipc'[r] # "done" => inext'[r] = inext[r] + 1]_vars

\* C21 witness: each of the four routes has answered its success status after a
\* notification that did not arrive: the booking_created, booking_confirmed and
\* payment_succeeded events were emitted and none reached the CRM, and intake
\* answered 201 having posted fewer payloads than it has entries.
C21_Witness ==
  /\ \E k \in Replays : kresp[k] = 201
  /\ \E a \in AdminRequests : apc[a] = "done" /\ aresp[a] = 200
  /\ \E h \in Replays : wpc[h] = "done" /\ wresp[h] = 200
  /\ \A b \in BookingIds :
       \A t \in {"booking_created", "booking_confirmed", "payment_succeeded"} :
         emitted[<<t, b>>] > 0 /\ notified[<<t, b>>] = 0
  /\ \E r \in Replays :
       /\ ipc[r] = "done" /\ iresp[r].status = 201 /\ iurl[r]
       /\ Cardinality(PostsOf(r)) < Len(ibody[r].bookings)
       /\ Len(idates[r]) = Len(ibody[r].bookings)

\* C22: a failed read of booked_properties, the existing-assignment read or the
\* overlapping-interval read, aborts the request: every step such a read takes
\* ends the request with an error status, so that no row is inserted for it.
C22_FailedReadAborts ==
  [][\A r \in Pair :
       \/ \E b \in Bodies : ~MissingFields(b) /\ Receive(r, b, FALSE)
       \/ CheckOverlap(r, FALSE)
       => /\ pc'[r] = "done"
          /\ resp'[r].status >= 500
          /\ booked_properties' = booked_properties]_vars

C29_StoredIntervalsWellFormed ==
  \A x \in Rows : NewDate(x.start_date) <= NewDate(x.end_date)

\* C26: a booking whose status is paid has an invoice row with its booking_id
\* and status paid, whatever create-session request is in flight or has failed.
C26_PaidBookingHasPaidInvoice ==
  \A b \in BookingIds :
    bookings[b] = "paid" =>
      \E i \in DOMAIN invoices :
        invoices[i].booking_id = b /\ invoices[i].status = "paid"

\* C27: a verified checkout.session.completed delivery answered 400 or 500 has
\* changed neither an invoice nor the booking; with the one delivery of the
\* specification, no invoice and no booking is paid then.
C27_ErrorAnswerChangedNothing ==
  \A h \in Deliveries :
    /\ wpc[h] = "done"
    /\ wverified[h]
    /\ wevent[h].type = "checkout.session.completed"
    /\ wresp[h] \in {400, 500}
    => /\ \A i \in DOMAIN invoices : invoices[i].status # "paid"
       /\ \A b \in BookingIds : bookings[b] # "paid"

\* C28: no step moves a cancelled booking to paid; stated for the bookings
\* whose payment session was opened and invoiced.
C28_CancelledNeverPaid ==
  [][\A b \in BookingIds :
       /\ bookings[b] = "cancelled"
       /\ \E i \in DOMAIN invoices : invoices[i].booking_id = b
       => bookings'[b] # "paid"]_vars

\* C30: no two rows of the contractor table carry the same code CT-n, however
\* the intake requests that created them interleave.
C30_ContractorCodesDistinct ==
  \A i, j \in DOMAIN contractor :
    i # j => contractor[i].code # contractor[j].code

\* The payload the claim calls valid: a UUID, two dates of the pattern, the end
\* day strictly after the start day.
WellFormedCreate(q) ==
  /\ q.property_id # "not-a-uuid"
  /\ q.start_date # NoDate /\ q.end_date # NoDate
  /\ q.start_date < q.end_date

\* The request of the step is a bookings/create request of a contractor or an
\* admin that is answered by it.
Creates(k) ==
  /\ kresp[k] = 0 /\ kresp'[k] # 0
  /\ RoleOf(kbody'[k].user) \in {"contractor", "admin"}

Gets(g) ==
  /\ gresp[g] = 0 /\ gresp'[g] # 0
  /\ RoleOf(gbody'[g].user) # ""

\* C24: GET bookings/:id answers an authenticated requester 404 for an unknown
\* id, 200 when the requester is an admin, the booking's contractor or the owner
\* of the booking's property, 403 otherwise, and changes no row.
C24_GetBookingContract ==
  [][\A g \in Replays :
       Gets(g) =>
         LET user == gbody'[g].user
             id == gbody'[g].id
             known == id \in BookingIds /\ bookings[id] # "none"
             entitled ==
               \/ RoleOf(user) = "admin"
               \/ user = bookingKeys[id].contractor_id
               \/ user = properties[bookingKeys[id].property_id].owner_id
         IN  /\ gresp'[g] = IF ~known THEN 404 ELSE IF entitled THEN 200 ELSE 403
             /\ UNCHANGED <<bookings, bookingRow, bookingKeys, properties, invoices,
                            tables, contractor, landlord, booking_requests,
                            booking_dates>>]_vars

\* C24 witness: the owner of the booking's property, not an admin and not the
\* booking's contractor, was answered 200 for an existing booking.
C24_Witness ==
  \E g \in Replays :
    /\ gresp[g] = 200
    /\ RoleOf(gbody[g].user) = "landlord"
    /\ bookings[gbody[g].id] = "pending"
    /\ properties[bookingKeys[gbody[g].id].property_id].owner_id = gbody[g].user

====
